---- MODULE Spec2Model ----
(***************************************************************************)
(* Client-side authentication session lifecycle of the repository:         *)
(*   frontend/lib/api.ts            Request Gateway + Refresh Coordinator  *)
(*   frontend/contexts/AuthContext  Session Context                        *)
(* The client is single-threaded and cooperative: a handler runs to        *)
(* completion up to its next network call, so every action below is one    *)
(* such run (the promise continuations that follow a settled request run   *)
(* in the same turn of the event loop and are part of the action).         *)
(* The server is the environment: it may answer any request with any       *)
(* status, in any order.                                                   *)
(***************************************************************************)
EXTENDS Integers, Sequences, FiniteSets, TLC

\* ---------------------------------------------------------------- bounds
NReq == 2          \* number of calls made through the gateway in one run
MaxTok == 3        \* number of access credentials the server mints
NUsers == 1        \* number of identities the server knows

Requests == 1..NReq
Users == 1..NUsers
NoUser == 0        \* user === null
NoToken == 0       \* localStorage.getItem("accessToken") === null / no header
Tokens == 1..MaxTok

\* HTTP outcomes of a failed call: 401, any other error status, or no
\* response at all (error.response undefined)
NoResponse == 0
ErrorStatuses == {401, 500, NoResponse}
NoStatus == -1     \* the call has not been answered yet

VARIABLES
    req,                \* per call: the axios config object and its promise
    storage,            \* localStorage["accessToken"]
    isRefreshing,       \* api.ts: let isRefreshing
    refreshSubscribers, \* api.ts: let refreshSubscribers (callbacks, by request)
    cycles,             \* the refresh calls made so far, pending or resolved
    signals,            \* number of "auth:tokenExpired" events dispatched
    user,               \* AuthContext: useState<User | null>
    isLoading,          \* AuthContext: useState(true)
    issued              \* last access credential minted by the server

\* The route guard (components/ui/AuthGuard.tsx), one mounted instance.
VARIABLES
    requireAuth,        \* prop requireAuth
    redirectTo,         \* prop redirectTo
    router,             \* identity of the object useRouter() returns
    hasRedirected,      \* useRef(false)
    gMounted,           \* the guard has rendered once
    seenAuth,           \* isAuthenticated of the guard's last render
    seenLoading,        \* isLoading of the guard's last render
    rendered,           \* what the last render returned
    lastTarget,         \* target of router.replace in the last commit
    redirectsSince      \* redirects issued since the last session transition

clientVars == <<req, storage, isRefreshing, refreshSubscribers, cycles,
                signals, issued>>
sessionVars == <<user, isLoading>>
guardVars == <<requireAuth, redirectTo, router, hasRedirected, gMounted,
               seenAuth, seenLoading, rendered, lastTarget, redirectsSince>>

\* The signup form (SignupForm component).
VARIABLES
    sf,                 \* formData: which fields are filled in
    sfErrors,           \* errors: the keys that carry a message
    sfLoading,          \* isLoading of the form
    sfPending,          \* a signup() call of the form is awaited
    sfSubmits,          \* number of runs of handleSubmit
    sfCalls,            \* number of signup() calls made
    sfNav               \* router.push('/dashboard') was called

formVars == <<sf, sfErrors, sfLoading, sfPending, sfSubmits, sfCalls, sfNav>>

\* The server's Credential Issuer and Session Store.
VARIABLES
    record,             \* Session Record: identity -> stored refresh credential
    rMinted,            \* refresh credentials minted so far, by owner
    lastVerify,         \* the refresh attempt just answered, and its result
    lastOp,             \* per identity, the last issuer operation applied
    pending,            \* login/logout responses not yet delivered
    returned,           \* refresh credentials delivered to a login caller
    aMinted,            \* access credential of each pair: issue and expiry time
    clock,              \* the server's clock
    lastAccess          \* the access verification just answered, and its result

serverVars == <<record, rMinted, lastVerify, lastOp, pending, returned,
                aMinted, clock, lastAccess>>

\* The server's global error handling middleware.
VARIABLES
    err,                \* the error passed to next(err)
    nodeEnv,            \* process.env.NODE_ENV
    res                 \* the response sent for it, if any

errorVars == <<err, nodeEnv, res>>

\* The login form (LoginForm component).
VARIABLES
    lf,                 \* formData: which fields are filled in
    lfErrors,           \* errors: the keys that carry a message
    lfLoading,          \* isLoading of the form
    lfPending,          \* a login() call of the form is awaited
    lfArgs,             \* the fields passed to the awaited or last login()
    lfSubmits,          \* number of runs of handleSubmit
    lfCalls,            \* number of login() calls made
    lfNav,              \* number of router.push('/dashboard') calls
    lfOutcome           \* how the last login() call of the form settled

loginVars == <<lf, lfErrors, lfLoading, lfPending, lfArgs, lfSubmits, lfCalls,
               lfNav, lfOutcome>>

\* The server's in-memory response cache middleware.
VARIABLES
    memoryCache,        \* the Map: an entry or NoEntry for each URL
    now,                \* Date.now()
    handlers,           \* downstream handlers running behind a miss, per URL
    sent,               \* number of responses the downstream handlers sent
    latest,             \* the last response a downstream handler sent, per URL
    served              \* the last run of the middleware and what it did

cacheVars == <<memoryCache, now, handlers, sent, latest, served>>

\* What the actions of each component leave alone.
nonClientVars == <<guardVars, formVars, serverVars, errorVars, loginVars,
                   cacheVars>>
nonGuardVars == <<clientVars, formVars, serverVars, errorVars, loginVars,
                  cacheVars>>
nonFormVars == <<clientVars, sessionVars, guardVars, serverVars, errorVars,
                 loginVars, cacheVars>>
nonServerVars == <<clientVars, sessionVars, guardVars, formVars, errorVars,
                   loginVars, cacheVars>>
nonErrorVars == <<clientVars, sessionVars, guardVars, formVars, serverVars,
                  loginVars, cacheVars>>
nonLoginVars == <<clientVars, sessionVars, guardVars, formVars, serverVars,
                  errorVars, cacheVars>>
nonCacheVars == <<clientVars, sessionVars, guardVars, formVars, serverVars,
                  errorVars, loginVars>>

vars == <<clientVars, sessionVars, guardVars, formVars, serverVars, errorVars,
          loginVars, cacheVars>>

\* ------------------------------------------------------------ the gateway

\* api.interceptors.request.use: the stored credential, when there is one,
\* overwrites whatever Authorization header the config already has.
RequestInterceptorAbsent(hdr, token) ==
    hdr

RequestInterceptor(hdr, token) ==
    IF token # NoToken THEN token ELSE hdr

\* A call that has not been made yet.
IdleRequest ==
    [state |-> "idle", kind |-> "none", retry |-> FALSE, header |-> NoToken,
     sends |-> 0, err |-> "none", ruser |-> NoUser, rtok |-> NoToken,
     hdr0 |-> NoToken, conc |-> {}, handled |-> 0, cycle |-> 0,
     via |-> NoStatus]

\* api(config): the config goes through the request interceptor and is sent.
Send(q, hdr, token) ==
    [q EXCEPT !.state = "inflight",
              !.header = RequestInterceptor(hdr, token),
              !.sends = @ + 1]

\* The calls of this run.
Calls == DOMAIN req

\* The calls whose first attempt is on the wire.
FirstInFlight == {r \in Calls : req[r].state = "inflight" /\ req[r].sends = 1}

\* authAPI.<kind>(): a new call through the gateway; calls are numbered in
\* the order in which they are made.
Dispatch(r, kind) ==
    /\ req[r].state = "idle"
    /\ \A p \in Calls : p < r => req[p].state # "idle"
    /\ req' = [req EXCEPT ![r] =
                 [Send(@, NoToken, storage) EXCEPT
                     !.kind = kind,
                     !.hdr0 = RequestInterceptor(NoToken, storage),
                     !.conc = FirstInFlight]]

\* ---------------------------------------------------- the session context

\* What the caller of authAPI.<kind>() does with a fulfilled call.
UserAfterSuccess(kind, u) ==
    CASE kind = "me" -> u
      [] kind = "login" -> u
      [] kind = "signup" -> u
      [] kind = "logout" -> NoUser
      [] OTHER -> user

StorageAfterSuccessNoStore(kind, tok, cur) ==
    IF kind = "logout" THEN NoToken ELSE cur

StorageAfterSuccess(kind, tok, cur) ==
    CASE kind = "login" -> tok
      [] kind = "signup" -> tok
      [] kind = "logout" -> NoToken
      [] OTHER -> cur

\* What the caller does with a rejected call: checkAuthStatus catches and
\* clears the identity; login, signup and logout let the error escape.
UserAfterFailure(kind) ==
    IF kind = "me" THEN NoUser ELSE user

\* checkAuthStatus' finally block
LoadingAfterBusy(kind) ==
    kind # "me"

LoadingAfter(kind) ==
    IF kind = "me" THEN FALSE ELSE isLoading

isAuthenticated == user # NoUser

\* ------------------------------------------------- the refresh coordinator

\* api.ts line 38: the coordinator takes a failed call only when it was
\* answered 401 and has not been retried yet.
TriggerAny401(status, q) ==
    status = 401

TriggerAnyFailure(status, q) ==
    ~q.retry

Trigger(status, q) ==
    status = 401 /\ ~q.retry

\* api.ts line 41: a refresh is already in flight, the call must wait.
MustQueueNever ==
    FALSE

MustQueue ==
    isRefreshing

\* A call starts at most one refresh call, so there are at most NReq of them.
CycleIds == 1..NReq

\* The refresh calls that have been sent and not answered yet.
PendingCycles == {c \in 1..Len(cycles) : cycles[c].outcome = "pending"}

\* api.ts lines 39, 43-48: the call is marked, its callback is queued and its
\* caller keeps a promise that only the callback resolves.
EnqueuedReplayNow(q, c) ==
    [Send(q, q.header, storage) EXCEPT
        !.retry = TRUE, !.handled = @ + 1, !.cycle = c]

Enqueued(q, c) ==
    [q EXCEPT !.retry = TRUE, !.handled = @ + 1, !.cycle = c,
              !.state = "queued"]

\* api.ts lines 39, 51-58: the call is marked and its handler awaits the
\* refresh call.
Refreshing(q, c) ==
    [q EXCEPT !.retry = TRUE, !.handled = @ + 1, !.cycle = c,
              !.state = "refreshing"]

\* api.ts lines 23-26: refreshSubscribers.forEach((callback) => callback(token))
\* invokes the callbacks from the first queued to the last.
onTokenRefreshedLastFirst(queue) ==
    [i \in 1..Len(queue) |-> queue[Len(queue) + 1 - i]]

onTokenRefreshed(queue) ==
    queue

\* api.ts lines 28-30: refreshSubscribers.push(callback)
addRefreshSubscriber(queue, r) ==
    Append(queue, r)

\* api.ts lines 54-58: the refresh call goes through bare axios, not through
\* the api instance: no request interceptor runs, cookies are sent.
RefreshCallThroughApi(token) ==
    [header |-> RequestInterceptor(NoToken, token), withCredentials |-> TRUE]

RefreshCall(token) ==
    [header |-> NoToken, withCredentials |-> TRUE]

\* api.ts line 74: refreshSubscribers = []
QueueAfterFailureKept(queue) ==
    queue

QueueAfterFailure(queue) ==
    <<>>

\* api.ts line 60: localStorage.setItem("accessToken", accessToken)
StoreOnRefreshKeep(tok, cur) ==
    cur

StoreOnRefresh(tok, cur) ==
    tok

\* api.ts line 72: localStorage.removeItem("accessToken")
ClearOnRefreshFailureKeep(cur) ==
    cur

ClearOnRefreshFailure(cur) ==
    NoToken

\* api.ts lines 23-26 and 44-47: the requests whose callbacks onTokenRefreshed
\* invokes.
Subscribed == {refreshSubscribers[i] : i \in 1..Len(refreshSubscribers)}

\* ------------------------------------------------------------------- Init

\* Module state of api.ts after import.
ClientInit ==
    /\ req = [r \in Requests |-> IdleRequest]
    /\ issued = 1
    /\ isRefreshing = FALSE
    /\ refreshSubscribers = <<>>
    /\ cycles = <<>>
    /\ signals = 0

\* AuthProvider's useState initial values.
SessionInit ==
    /\ user = NoUser
    /\ isLoading = TRUE

\* AuthGuard before its first render, with the default props.
GuardIdle ==
    /\ requireAuth = TRUE
    /\ redirectTo = "/login"
    /\ router = 0
    /\ hasRedirected = FALSE
    /\ gMounted = FALSE
    /\ seenAuth = FALSE
    /\ seenLoading = TRUE
    /\ rendered = "none"
    /\ lastTarget = "none"
    /\ redirectsSince = 0

\* SignupForm's useState initial values.
FormFields == {"username", "email", "password", "fullName", "avatar",
               "coverImage"}

FormIdle ==
    /\ sf = [f \in FormFields |-> FALSE]
    /\ sfErrors = {}
    /\ sfLoading = FALSE
    /\ sfPending = FALSE
    /\ sfSubmits = 0
    /\ sfCalls = 0
    /\ sfNav = FALSE

\* The server before any login: no Session Record holds a credential.
NIds == 2          \* identities registered at the server
MaxRT == 2         \* refresh credentials the issuer mints
MaxPending == 2    \* login/logout handlers running at the same time
MaxClock == 2      \* the clock's horizon, in units of the access lifetime / 2
AccessTTL == 2     \* lifetime of an access credential; refresh credentials
                   \* live for days and none expires within the horizon

Identities == 1..NIds
NoRT == 0          \* empty Session Record / no such credential
NoAttempt == [tok |-> NoRT, result |-> "none"]
NoAccess == [tok |-> NoRT, status |-> "none", id |-> 0]

ServerIdle ==
    /\ record = [id \in Identities |-> NoRT]
    /\ rMinted = <<>>
    /\ lastVerify = NoAttempt
    /\ lastOp = [id \in Identities |-> "none"]
    /\ pending = {}
    /\ returned = {}
    /\ aMinted = <<>>
    /\ clock = 0
    /\ lastAccess = NoAccess

\* The errors that reach the middleware: ApiError instances thrown by the
\* controllers, Mongoose validation errors, MongoDB duplicate-key errors, the
\* two jsonwebtoken errors, and any other Error.
NoCode == 0        \* err.code === undefined
DuplicateKey == 11000
ModelFields == {"username", "email"}
FieldLists == {<<>>} \cup {<<f>> : f \in ModelFields}
                 \cup {<<f, g>> : f, g \in ModelFields}
ErrorOf(api, name, code, statusCode, success, fields) ==
    [api |-> api, name |-> name, code |-> code, statusCode |-> statusCode,
     success |-> success, fields |-> fields]

ApiErrors ==
    {ErrorOf(TRUE, "Error", NoCode, sc, ok, fl) :
        sc \in {400, 401, 404, 409, 500}, ok \in BOOLEAN,
        fl \in {<<>>, <<"email">>}}
ValidationErrors ==
    {ErrorOf(FALSE, "ValidationError", NoCode, 0, FALSE, fl) :
        fl \in {l \in FieldLists : Len(l) = 2 => l[1] # l[2]}}
DuplicateKeyErrors ==
    {ErrorOf(FALSE, "MongoServerError", DuplicateKey, 0, FALSE, <<f>>) :
        f \in ModelFields}
OtherErrors ==
    {ErrorOf(FALSE, name, code, 0, FALSE, <<>>) :
        name \in {"JsonWebTokenError", "TokenExpiredError", "Error",
                  "MongoServerError", "TypeError"},
        code \in {NoCode, 121}}
Errors == ApiErrors \cup ValidationErrors \cup DuplicateKeyErrors \cup OtherErrors
NoError == ErrorOf(FALSE, "none", NoCode, 0, FALSE, <<>>)
NoRes == [status |-> 0]
Envs == {"development", "production", "test"}

ErrorIdle ==
    /\ err = NoError
    /\ nodeEnv = "test"
    /\ res = NoRes

\* The login form as rendered first: login-form.tsx lines 27-33.
LoginFields == {"username", "email", "password"}
NoArgs == [f \in LoginFields |-> FALSE]

LoginIdle ==
    /\ lf = [f \in LoginFields |-> FALSE]
    /\ lfErrors = {}
    /\ lfLoading = FALSE
    /\ lfPending = FALSE
    /\ lfArgs = NoArgs
    /\ lfSubmits = 0
    /\ lfCalls = 0
    /\ lfNav = 0
    /\ lfOutcome = "none"

\* The response cache of a server that has answered nothing yet.
NUrls == 2         \* URLs requested through the cache middleware
Urls == 1..NUrls
NoEntry == [data |-> 0, timestamp |-> 0]
NoServe == [url |-> 0, duration |-> 0, at |-> 0, hit |-> FALSE, data |-> 0]

CacheIdle ==
    /\ memoryCache = [u \in Urls |-> NoEntry]
    /\ now = 0
    /\ handlers = [u \in Urls |-> 0]
    /\ sent = 0
    /\ latest = [u \in Urls |-> 0]
    /\ served = NoServe

Init ==
    /\ ClientInit
    /\ storage \in {NoToken, 1}      \* a credential of an earlier page load
    /\ SessionInit
    /\ GuardIdle
    /\ FormIdle
    /\ ServerIdle
    /\ LoginIdle
    /\ CacheIdle
    /\ ErrorIdle

\* ---------------------------------------------------------------- actions

Mounted == req[1].state # "idle"

\* AuthProvider's mount effect: checkAuthStatus() sends the probe, GET /users/me.
checkAuthStatus ==
    /\ ~Mounted
    /\ Dispatch(1, "me")
    /\ UNCHANGED <<storage, isRefreshing, refreshSubscribers, cycles, signals,
                   user, isLoading, issued>>
    /\ UNCHANGED nonClientVars

\* login(data): POST /users/login
login(r) ==
    /\ Mounted
    /\ Dispatch(r, "login")
    /\ UNCHANGED <<storage, isRefreshing, refreshSubscribers, cycles, signals,
                   user, isLoading, issued>>
    /\ UNCHANGED nonClientVars

\* signup(formData): POST /users/register
signup(r) ==
    /\ Mounted
    /\ Dispatch(r, "signup")
    /\ UNCHANGED <<storage, isRefreshing, refreshSubscribers, cycles, signals,
                   user, isLoading, issued>>
    /\ UNCHANGED nonClientVars

\* logout(): POST /users/logout
logout(r) ==
    /\ Mounted
    /\ Dispatch(r, "logout")
    /\ UNCHANGED <<storage, isRefreshing, refreshSubscribers, cycles, signals,
                   user, isLoading, issued>>
    /\ UNCHANGED nonClientVars

\* A 2xx response: the response interceptor passes it on and the caller's
\* continuation runs.
ResponseOK(r) ==
    /\ req[r].state = "inflight"
    /\ LET k == req[r].kind
           mints == k \in {"login", "signup"}
           tok == issued + 1
       IN /\ mints => issued < MaxTok
          /\ issued' = IF mints THEN tok ELSE issued
          /\ \E u \in Users :
                /\ user' = UserAfterSuccess(k, u)
                /\ req' = [req EXCEPT
                             ![r].state = "resolved",
                             ![r].ruser = IF mints THEN u ELSE NoUser,
                             ![r].rtok = IF mints THEN tok ELSE NoToken]
          /\ storage' = StorageAfterSuccess(k, tok, storage)
          /\ isLoading' = LoadingAfter(k)
    /\ UNCHANGED <<isRefreshing, refreshSubscribers, cycles, signals>>
    /\ UNCHANGED nonClientVars

\* A failure the coordinator takes (a 401 on a call not retried yet), while
\* a refresh is in flight.
ResponseErrorQueue(r, status) ==
    /\ req[r].state = "inflight"
    /\ Trigger(status, req[r])
    /\ MustQueue
    /\ req' = [req EXCEPT ![r] = [Enqueued(@, Len(cycles)) EXCEPT !.via = status]]
    /\ refreshSubscribers' = addRefreshSubscriber(refreshSubscribers, r)
    /\ UNCHANGED <<storage, isRefreshing, cycles, signals, user, isLoading,
                   issued>>
    /\ UNCHANGED nonClientVars

\* A failure the coordinator takes, no refresh in flight: the handler sets
\* the flag and sends the refresh call with bare axios.
ResponseErrorRefresh(r, status) ==
    /\ req[r].state = "inflight"
    /\ Trigger(status, req[r])
    /\ ~MustQueue
    /\ isRefreshing' = TRUE
    /\ cycles' = Append(cycles, [starter |-> r, outcome |-> "pending",
                                 token |-> NoToken, status |-> NoStatus,
                                 call |-> RefreshCall(storage),
                                 replays |-> <<>>])
    /\ req' = [req EXCEPT ![r] =
                 [Refreshing(@, Len(cycles) + 1) EXCEPT !.via = status]]
    /\ UNCHANGED <<storage, refreshSubscribers, signals, user, isLoading,
                   issued>>
    /\ UNCHANGED nonClientVars

\* Any other failure, or a 401 on a call already retried: the original error
\* is rejected to the caller.
ResponseErrorReject(r, status) ==
    /\ req[r].state = "inflight"
    /\ ~Trigger(status, req[r])
    /\ req' = [req EXCEPT ![r].state = "rejected",
                          ![r].err = IF status = 401 THEN "401" ELSE "other"]
    /\ user' = UserAfterFailure(req[r].kind)
    /\ isLoading' = LoadingAfter(req[r].kind)
    /\ UNCHANGED <<storage, isRefreshing, refreshSubscribers, cycles, signals,
                   issued>>
    /\ UNCHANGED nonClientVars

\* The refresh call of cycle c is answered with a new access credential:
\* api.ts lines 59-69.
RefreshSuccess(c) ==
    /\ c \in PendingCycles
    /\ issued < MaxTok
    /\ LET tok == issued + 1
           stored == StoreOnRefresh(tok, storage)
           order == onTokenRefreshed(refreshSubscribers) \o <<cycles[c].starter>>
           replayed == Subscribed \cup {cycles[c].starter}
       IN /\ issued' = tok
          /\ storage' = stored
          /\ req' = [q \in Calls |->
                       IF q \in replayed THEN Send(req[q], tok, stored)
                                         ELSE req[q]]
          /\ cycles' = [cycles EXCEPT ![c].outcome = "ok", ![c].token = tok,
                                       ![c].status = 200,
                                       ![c].replays = order]
    /\ refreshSubscribers' = <<>>
    /\ isRefreshing' = FALSE
    /\ UNCHANGED <<signals, user, isLoading>>
    /\ UNCHANGED nonClientVars

\* (A refresh call sent through the api instance: its 401 is taken by the
\* response interceptor again and the refresh request is sent once more.)
RefreshFailureRetry(c, status) ==
    /\ c \in PendingCycles
    /\ Len(cycles) < Cardinality(Calls)
    /\ cycles' = Append([cycles EXCEPT ![c].outcome = "fail", ![c].status = status],
                        [cycles[c] EXCEPT !.call = RefreshCall(storage)])
    /\ req' = [req EXCEPT ![cycles[c].starter].cycle = Len(cycles) + 1]
    /\ UNCHANGED <<storage, isRefreshing, refreshSubscribers, signals, user,
                   isLoading, issued>>
    /\ UNCHANGED nonClientVars

\* The refresh call of cycle c fails: api.ts lines 70-79.  The starter's
\* caller gets the refresh error; nobody listens to the dispatched event.
RefreshFailure(c, status) ==
    /\ c \in PendingCycles
    /\ LET s == cycles[c].starter
       IN /\ req' = [req EXCEPT ![s].state = "rejected", ![s].err = "refresh"]
          /\ user' = UserAfterFailure(req[s].kind)
          /\ isLoading' = LoadingAfter(req[s].kind)
    /\ storage' = ClearOnRefreshFailure(storage)
    /\ isRefreshing' = FALSE
    /\ refreshSubscribers' = QueueAfterFailure(refreshSubscribers)
    /\ signals' = signals + 1
    /\ cycles' = [cycles EXCEPT ![c].outcome = "fail", ![c].status = status]
    /\ UNCHANGED issued
    /\ UNCHANGED nonClientVars

Next ==
    \/ checkAuthStatus
    \/ \E r \in Requests : login(r)
    \/ \E r \in Requests : signup(r)
    \/ \E r \in Requests : logout(r)
    \/ \E r \in Requests : ResponseOK(r)
    \/ \E r \in Requests, st \in ErrorStatuses : ResponseErrorQueue(r, st)
    \/ \E r \in Requests, st \in ErrorStatuses : ResponseErrorRefresh(r, st)
    \/ \E r \in Requests, st \in ErrorStatuses : ResponseErrorReject(r, st)
    \/ \E c \in CycleIds : RefreshSuccess(c)
    \/ \E c \in CycleIds, st \in ErrorStatuses : RefreshFailure(c, st)

Spec == Init /\ [][Next]_vars

\* A burst: one call more than in Spec, made with an access credential of an
\* earlier page load, so that two calls can wait in the queue behind the one
\* that started the refresh.  The calls after the probe are logouts.
NBurst == NReq + 1
Burst == 1..NBurst

BurstInit ==
    /\ req = [r \in Burst |-> IdleRequest]
    /\ issued = 1
    /\ isRefreshing = FALSE
    /\ refreshSubscribers = <<>>
    /\ cycles = <<>>
    /\ signals = 0
    /\ storage = 1
    /\ SessionInit
    /\ GuardIdle
    /\ FormIdle
    /\ ServerIdle
    /\ LoginIdle
    /\ CacheIdle
    /\ ErrorIdle

BurstNext ==
    \/ checkAuthStatus
    \/ \E r \in Burst : logout(r)
    \/ \E r \in Burst : ResponseOK(r)
    \/ \E r \in Burst, st \in ErrorStatuses : ResponseErrorQueue(r, st)
    \/ \E r \in Burst, st \in ErrorStatuses : ResponseErrorRefresh(r, st)
    \/ \E r \in Burst : ResponseErrorReject(r, 401)
    \/ \E c \in Burst : RefreshSuccess(c)
    \/ \E c \in Burst : RefreshFailure(c, 401)

BurstSpec == BurstInit /\ [][BurstNext]_vars

TypeOK ==
    /\ storage \in {NoToken} \cup Tokens
    /\ isRefreshing \in BOOLEAN
    /\ user \in {NoUser} \cup Users
    /\ isLoading \in BOOLEAN
    /\ issued \in Tokens
    /\ signals \in Nat
    /\ \A r \in Requests :
          req[r].state \in {"idle", "inflight", "queued", "refreshing",
                            "resolved", "rejected"}

\* ---------------------------------------------------------- the route guard

MaxRedirects == 2  \* redirects followed within one session state

\* Values of the redirectTo prop: the default and a configured one.
RedirectTargets == {"/login", "/signin"}
Landing == "/dashboard"
NoRedirect == "none"

\* AuthGuard.tsx lines 22-31: the redirect effect, run with the values of the
\* render it belongs to; it returns the new flag and the router.replace target.
RedirectEffectWhileLoading(flag, loading, auth, ra, rt) ==
    IF ~flag /\ ra /\ ~auth THEN [flag |-> TRUE, target |-> rt]
    ELSE IF ~flag /\ ~ra /\ auth THEN [flag |-> TRUE, target |-> Landing]
    ELSE [flag |-> flag, target |-> NoRedirect]

RedirectEffectOneTarget(flag, loading, auth, ra, rt) ==
    IF ~loading /\ ~flag /\ (ra # auth)
    THEN [flag |-> TRUE, target |-> rt]
    ELSE [flag |-> flag, target |-> NoRedirect]

RedirectEffect(flag, loading, auth, ra, rt) ==
    IF ~loading /\ ~flag
    THEN IF ra /\ ~auth THEN [flag |-> TRUE, target |-> rt]
         ELSE IF ~ra /\ auth THEN [flag |-> TRUE, target |-> Landing]
         ELSE [flag |-> flag, target |-> NoRedirect]
    ELSE [flag |-> flag, target |-> NoRedirect]

\* AuthGuard.tsx lines 33-37: the effect that resets the flag.
ResetEffect(flag) ==
    FALSE

\* AuthGuard.tsx lines 39-55: what the component returns.
RenderNoGuestBranch(loading, auth, ra) ==
    IF loading THEN "placeholder"
    ELSE IF ra /\ ~auth THEN "null"
    ELSE "children"

Render(loading, auth, ra) ==
    IF loading THEN "placeholder"
    ELSE IF ra /\ ~auth THEN "null"
    ELSE IF ~ra /\ auth THEN "null"
    ELSE "children"

\* The session state has a redirect case: AuthGuard.tsx lines 24, 27.
NeedsRedirect(loading, auth, ra) ==
    ~loading /\ (ra # auth)

\* One render of the guard with props rt and router object rtr, followed by
\* its effects in the order of their declaration; an effect runs on the first
\* render and when one of its dependencies has changed.
Commit(rt, rtr) ==
    LET auth == isAuthenticated
        sessionChanged == ~gMounted \/ auth # seenAuth \/ isLoading # seenLoading
        runsRedirect == sessionChanged \/ rt # redirectTo \/ rtr # router
        runsReset == ~gMounted \/ auth # seenAuth
        eff == IF runsRedirect
               THEN RedirectEffect(hasRedirected, isLoading, auth, requireAuth, rt)
               ELSE [flag |-> hasRedirected, target |-> NoRedirect]
        n == IF eff.target # NoRedirect THEN 1 ELSE 0
    IN /\ rendered' = Render(isLoading, auth, requireAuth)
       /\ hasRedirected' = IF runsReset THEN ResetEffect(eff.flag) ELSE eff.flag
       /\ lastTarget' = eff.target
       /\ redirectsSince' = IF sessionChanged THEN n ELSE redirectsSince + n
       /\ seenAuth' = auth
       /\ seenLoading' = isLoading
       /\ gMounted' = TRUE
       /\ redirectTo' = rt
       /\ router' = rtr
       /\ UNCHANGED requireAuth

\* First render of the guard.
GuardMount ==
    /\ ~gMounted
    /\ Commit(redirectTo, router)
    /\ UNCHANGED <<nonGuardVars, sessionVars>>

\* Re-render because the context value changed.
GuardUpdate ==
    /\ gMounted
    /\ <<isAuthenticated, isLoading>> # <<seenAuth, seenLoading>>
    /\ Commit(redirectTo, router)
    /\ UNCHANGED <<nonGuardVars, sessionVars>>

\* Re-render with another redirectTo prop.
GuardPropChange(rt) ==
    /\ gMounted
    /\ rt # redirectTo
    /\ redirectsSince < MaxRedirects
    /\ Commit(rt, router)
    /\ UNCHANGED <<nonGuardVars, sessionVars>>

\* Re-render in which useRouter() returns another object.
GuardRouterChange ==
    /\ gMounted
    /\ redirectsSince < MaxRedirects
    /\ Commit(redirectTo, 1 - router)
    /\ UNCHANGED <<nonGuardVars, sessionVars>>

\* The session context as the guard sees it: AuthProvider sets the identity
\* (probe, login, signup, logout) ...
setUser(u) ==
    /\ u # user
    /\ user' = u
    /\ UNCHANGED <<nonGuardVars, isLoading, guardVars>>

\* ... and ends loading once (checkAuthStatus' finally block).
setIsLoading ==
    /\ isLoading
    /\ isLoading' = FALSE
    /\ UNCHANGED <<nonGuardVars, user, guardVars>>

GuardInit ==
    /\ ClientInit
    /\ storage = NoToken
    /\ SessionInit
    /\ requireAuth \in BOOLEAN
    /\ redirectTo \in RedirectTargets
    /\ router = 0
    /\ hasRedirected = FALSE
    /\ gMounted = FALSE
    /\ seenAuth = FALSE
    /\ seenLoading = TRUE
    /\ rendered = "none"
    /\ lastTarget = NoRedirect
    /\ redirectsSince = 0
    /\ FormIdle
    /\ ServerIdle
    /\ LoginIdle
    /\ CacheIdle
    /\ ErrorIdle

GuardNext ==
    \/ GuardMount
    \/ GuardUpdate
    \/ \E rt \in RedirectTargets : GuardPropChange(rt)
    \/ GuardRouterChange
    \/ \E u \in {NoUser} \cup Users : setUser(u)
    \/ setIsLoading

GuardSpec == GuardInit /\ [][GuardNext]_vars

\* The step is a render of the guard.
GuardStep == guardVars' # guardVars

\* ---------------------------------------------------------- the signup form

MaxSubmits == 2    \* runs of handleSubmit in one run of the form

TextFields == {"username", "email", "password", "fullName"}
FileFields == {"avatar", "coverImage"}

\* SignupForm.validateForm: the keys of newErrors.
validateFormNoAvatar(data) ==
    {f \in TextFields : ~data[f]}

validateForm(data) ==
    {f \in {"username"} : ~data.username}
        \cup {f \in {"email"} : ~data.email}
        \cup {f \in {"password"} : ~data.password}
        \cup {f \in {"fullName"} : ~data.fullName}
        \cup {f \in {"avatar"} : ~data.avatar}

\* handleChange: a text input is set to a value, empty or not, and the
\* message of that field is blanked.
sfHandleChange(f, filled) ==
    /\ sf[f] # filled
    /\ sf' = [sf EXCEPT ![f] = filled]
    /\ sfErrors' = sfErrors \ {f}
    /\ UNCHANGED <<sfLoading, sfPending, sfSubmits, sfCalls, sfNav>>
    /\ UNCHANGED nonFormVars

\* handleFileChange: a chosen file is kept; nothing else changes.
sfHandleFileChange(f) ==
    /\ ~sf[f]
    /\ sf' = [sf EXCEPT ![f] = TRUE]
    /\ UNCHANGED <<sfErrors, sfLoading, sfPending, sfSubmits, sfCalls, sfNav>>
    /\ UNCHANGED nonFormVars

\* handleSubmit up to its await: the submit button is disabled while the
\* form is loading.
sfHandleSubmit ==
    /\ ~sfLoading
    /\ sfSubmits < MaxSubmits
    /\ sfSubmits' = sfSubmits + 1
    /\ sfErrors' = validateForm(sf)
    /\ IF validateForm(sf) = {}
       THEN /\ sfLoading' = TRUE
            /\ sfPending' = TRUE
            /\ sfCalls' = sfCalls + 1
       ELSE UNCHANGED <<sfLoading, sfPending, sfCalls>>
    /\ UNCHANGED <<sf, sfNav>>
    /\ UNCHANGED nonFormVars

\* signup() fulfils: router.push('/dashboard'), then the finally block.
sfSignupResolved ==
    /\ sfPending
    /\ sfPending' = FALSE
    /\ sfNav' = TRUE
    /\ sfLoading' = FALSE
    /\ UNCHANGED <<sf, sfErrors, sfSubmits, sfCalls>>
    /\ UNCHANGED nonFormVars

\* signup() rejects: the general message is set, then the finally block.
sfSignupRejected ==
    /\ sfPending
    /\ sfPending' = FALSE
    /\ sfErrors' = {"general"}
    /\ sfLoading' = FALSE
    /\ UNCHANGED <<sf, sfSubmits, sfCalls, sfNav>>
    /\ UNCHANGED nonFormVars

FormInit ==
    /\ ClientInit
    /\ storage = NoToken
    /\ SessionInit
    /\ GuardIdle
    /\ FormIdle
    /\ ServerIdle
    /\ LoginIdle
    /\ CacheIdle
    /\ ErrorIdle

FormNext ==
    \/ \E f \in TextFields, filled \in BOOLEAN : sfHandleChange(f, filled)
    \/ \E f \in FileFields : sfHandleFileChange(f)
    \/ sfHandleSubmit
    \/ sfSignupResolved
    \/ sfSignupRejected

FormSpec == FormInit /\ [][FormNext]_vars

\* ------------------------------------- credential issuer and session store

\* Session Store: set(identityId, token) overwrites the single slot.
SessionSetKeepFirst(rec, id, tok) ==
    IF rec[id] # NoRT THEN rec ELSE [rec EXCEPT ![id] = tok]

SessionSet(rec, id, tok) ==
    [rec EXCEPT ![id] = tok]

\* Session Store: clear(identityId).
SessionClearNothing(rec, id) ==
    rec

SessionClearAll(rec, id) ==
    [i \in DOMAIN rec |-> NoRT]

SessionClearNeighbour(rec, id) ==
    [rec EXCEPT ![(id % NIds) + 1] = NoRT]

SessionClear(rec, id) ==
    [rec EXCEPT ![id] = NoRT]

\* The refresh credentials that carry a valid signature.
Minted == 1..Len(rMinted)

\* verifyRefresh(token): the identity is read from the signed token and the
\* token is compared with the stored Session Record.
verifyRefresh(tok) ==
    IF tok \notin Minted THEN "invalid"
    ELSE IF record[rMinted[tok]] # tok THEN "revoked"
    ELSE "ok"

\* verifyAccess(token): the signature, then the expiry the token carries.
verifyAccessNoExpiry(tok) ==
    IF tok \notin Minted THEN [status |-> "invalid", id |-> 0]
    ELSE [status |-> "ok", id |-> rMinted[tok]]

verifyAccess(tok) ==
    IF tok \notin Minted THEN [status |-> "invalid", id |-> 0]
    ELSE IF clock >= aMinted[tok].exp THEN [status |-> "expired", id |-> 0]
    ELSE [status |-> "ok", id |-> rMinted[tok]]

\* The response a login or logout handler still has to deliver.
Response(kind, id, tok) == [kind |-> kind, id |-> id, tok |-> tok]

\* issue(identity), at login or register: a new refresh credential is minted
\* and written into the Session Record in one atomic update; the handler
\* then has the cookie and the body to deliver.
issue(id) ==
    /\ Len(rMinted) < MaxRT
    /\ Cardinality(pending) < MaxPending
    /\ pending' = pending \cup {Response("login", id, Len(rMinted) + 1)}
    /\ aMinted' = Append(aMinted, [iat |-> clock, exp |-> clock + AccessTTL])
    /\ lastAccess' = NoAccess
    /\ UNCHANGED <<returned, clock>>
    /\ rMinted' = Append(rMinted, id)
    /\ record' = SessionSet(record, id, Len(rMinted) + 1)
    /\ lastVerify' = NoAttempt
    /\ lastOp' = [lastOp EXCEPT ![id] = "issue"]
    /\ UNCHANGED nonServerVars

\* revoke(identityId), at logout; lastOp tells a first revoke from a repeated
\* one.
revoke(id) ==
    /\ record' = SessionClear(record, id)
    /\ lastVerify' = NoAttempt
    /\ lastOp' = [lastOp EXCEPT ![id] =
                     IF @ \in {"revoke", "revoke again"} THEN "revoke again"
                     ELSE "revoke"]
    /\ Cardinality(pending \cup {Response("logout", id, NoRT)}) <= MaxPending
    /\ pending' = pending \cup {Response("logout", id, NoRT)}
    /\ lastAccess' = NoAccess
    /\ UNCHANGED <<rMinted, returned, aMinted, clock>>
    /\ UNCHANGED nonServerVars

\* The handler of a login or logout delivers its response; the caller of a
\* login now holds the refresh credential.
respond(p) ==
    /\ p \in pending
    /\ pending' = pending \ {p}
    /\ returned' = IF p.kind = "login" THEN returned \cup {p.tok} ELSE returned
    /\ lastAccess' = NoAccess
    /\ UNCHANGED <<record, rMinted, lastVerify, lastOp, aMinted, clock>>
    /\ UNCHANGED nonServerVars

\* POST /users/refresh-token with the cookie tok, from whichever device holds
\* it; the stored refresh credential is not rotated.
refreshToken(tok) ==
    /\ lastVerify' = [tok |-> tok, result |-> verifyRefresh(tok)]
    /\ lastVerify' # lastVerify
    /\ lastAccess' = NoAccess
    /\ UNCHANGED <<record, rMinted, lastOp, pending, returned, aMinted, clock>>
    /\ UNCHANGED nonServerVars

\* A request to a protected endpoint (GET /users/me) presents the access
\* credential of pair tok: the server verifies it.
authenticate(tok) ==
    /\ lastAccess' = [tok |-> tok, status |-> verifyAccess(tok).status,
                      id |-> verifyAccess(tok).id]
    /\ lastAccess' # lastAccess
    /\ lastVerify' = NoAttempt
    /\ UNCHANGED <<record, rMinted, lastOp, pending, returned, aMinted, clock>>
    /\ UNCHANGED nonServerVars

\* Time passes.
Tick ==
    /\ clock < MaxClock
    /\ clock' = clock + 1
    /\ lastAccess' = NoAccess
    /\ lastVerify' = NoAttempt
    /\ UNCHANGED <<record, rMinted, lastOp, pending, returned, aMinted>>
    /\ UNCHANGED nonServerVars

ServerInit ==
    /\ ClientInit
    /\ storage = NoToken
    /\ SessionInit
    /\ GuardIdle
    /\ FormIdle
    /\ ServerIdle
    /\ LoginIdle
    /\ CacheIdle
    /\ ErrorIdle

ServerNext ==
    \/ \E id \in Identities : issue(id)
    \/ \E id \in Identities : revoke(id)
    \/ \E tok \in 0..MaxRT : refreshToken(tok)
    \/ \E kind \in {"login", "logout"}, id \in Identities, tok \in 0..MaxRT :
          respond(Response(kind, id, tok))

ServerSpec == ServerInit /\ [][ServerNext]_vars

\* The issuer under a running clock: credentials are issued, delivered and
\* presented to protected endpoints. verifyAccess reads neither the Session
\* Record nor the refresh credential, so logout and refresh are left to
\* ServerSpec.
IssuerNext ==
    \/ \E id \in Identities : issue(id)
    \/ \E id \in Identities, tok \in 1..MaxRT :
          respond(Response("login", id, tok))
    \/ \E tok \in 0..MaxRT : authenticate(tok)
    \/ Tick

IssuerSpec == ServerInit /\ [][IssuerNext]_vars

\* ------------------------------------------------ the global error handler

\* res.status(status).json(body)
Json(status, success, statusCode, message, errors, stack) ==
    [status |-> status,
     body |-> [success |-> success, statusCode |-> statusCode,
               message |-> message, errors |-> errors, stack |-> stack]]

\* val.message of a Mongoose validator error, err.message of any error.
FieldMessage(f) == <<f, "is required">>
MessageOf(e) == <<"message of", e.name>>

\* Object.values(err.errors).map((val) => val.message)
ValidationMessages(e) == [i \in 1..Len(e.fields) |-> FieldMessage(e.fields[i])]

\* Object.keys(err.keyValue)[0]
KeyField(e) == e.fields[1]

HandleOther(e, env) ==
    Json(500, FALSE, 500,
         IF env = "production" THEN <<"Something went wrong">> ELSE MessageOf(e),
         <<"Internal server error">>, env = "development")

HandleJwt(e, env) ==
    IF e.name = "JsonWebTokenError"
    THEN Json(401, FALSE, 401, <<"Invalid token">>, <<"Token is invalid">>, FALSE)
    ELSE IF e.name = "TokenExpiredError"
    THEN Json(401, FALSE, 401, <<"Token expired">>, <<"Token has expired">>, FALSE)
    ELSE HandleOther(e, env)

HandleDuplicateAs500(e, env) ==
    HandleJwt(e, env)

HandleDuplicate(e, env) ==
    IF e.code = DuplicateKey
    THEN Json(409, FALSE, 409, <<KeyField(e), "already exists">>,
              <<<<KeyField(e), "must be unique">>>>, FALSE)
    ELSE HandleJwt(e, env)

HandleValidation(e, env) ==
    IF e.name = "ValidationError"
    THEN Json(400, FALSE, 400, <<"Validation Error">>, ValidationMessages(e), FALSE)
    ELSE HandleDuplicate(e, env)

\* app.use((err, req, res, next) => ...): the branches in the order of the code.
ErrorHandler(e, env) ==
    IF e.api
    THEN Json(e.statusCode, e.success, e.statusCode, MessageOf(e),
              e.fields, env = "development")
    ELSE HandleValidation(e, env)

\* A route handler fails: next(err).
raise(e, env) ==
    /\ res # NoRes \/ err = NoError
    /\ err' = e
    /\ nodeEnv' = env
    /\ res' = NoRes
    /\ UNCHANGED nonErrorVars

\* The middleware answers.
handleError ==
    /\ err # NoError
    /\ res = NoRes
    /\ res' = ErrorHandler(err, nodeEnv)
    /\ UNCHANGED <<err, nodeEnv>>
    /\ UNCHANGED nonErrorVars

ErrorInit ==
    /\ ClientInit
    /\ storage = NoToken
    /\ SessionInit
    /\ GuardIdle
    /\ FormIdle
    /\ ServerIdle
    /\ LoginIdle
    /\ CacheIdle
    /\ err \in Errors
    /\ nodeEnv \in Envs
    /\ res = NoRes

ErrorNext ==
    \/ \E e \in Errors, env \in Envs : raise(e, env)
    \/ handleError

ErrorSpec == ErrorInit /\ [][ErrorNext]_vars

\* ----------------------------------------------------------- the login form

MaxLoginSubmits == 2    \* runs of handleSubmit in one run of the login form

\* The inputs the form renders: login-form.tsx lines 90-112.  There is no
\* input named email, so formData.email keeps its initial value.
LoginInputs == {"username", "password"}

\* LoginForm.validateForm: the keys of newErrors.
lfValidateFormNoPassword(data) ==
    IF ~data.username /\ ~data.email THEN {"username", "email"} ELSE {}

lfValidateForm(data) ==
    (IF ~data.username /\ ~data.email THEN {"username", "email"} ELSE {})
        \cup (IF ~data.password THEN {"password"} ELSE {})

\* handleChange: an input is set to a value, empty or not, and the message
\* of that field is blanked.
lfHandleChange(f, filled) ==
    /\ lf[f] # filled
    /\ lf' = [lf EXCEPT ![f] = filled]
    /\ lfErrors' = lfErrors \ {f}
    /\ UNCHANGED <<lfLoading, lfPending, lfArgs, lfSubmits, lfCalls, lfNav,
                   lfOutcome>>
    /\ UNCHANGED nonLoginVars

\* handleSubmit up to its await: the submit button is disabled while the
\* form is loading.
lfHandleSubmit ==
    /\ ~lfLoading
    /\ lfSubmits < MaxLoginSubmits
    /\ lfSubmits' = lfSubmits + 1
    /\ lfErrors' = lfValidateForm(lf)
    /\ IF lfValidateForm(lf) = {}
       THEN /\ lfLoading' = TRUE
            /\ lfPending' = TRUE
            /\ lfArgs' = lf
            /\ lfCalls' = lfCalls + 1
       ELSE UNCHANGED <<lfLoading, lfPending, lfArgs, lfCalls>>
    /\ UNCHANGED <<lf, lfNav, lfOutcome>>
    /\ UNCHANGED nonLoginVars

\* login() fulfils: router.push('/dashboard'), then the finally block.
lfLoginResolved ==
    /\ lfPending
    /\ lfPending' = FALSE
    /\ lfNav' = lfNav + 1
    /\ lfLoading' = FALSE
    /\ lfOutcome' = "ok"
    /\ UNCHANGED <<lf, lfErrors, lfArgs, lfSubmits, lfCalls>>
    /\ UNCHANGED nonLoginVars

\* login() rejects: the general message is set, then the finally block.
lfLoginRejected ==
    /\ lfPending
    /\ lfPending' = FALSE
    /\ lfErrors' = {"general"}
    /\ lfLoading' = FALSE
    /\ lfOutcome' = "fail"
    /\ UNCHANGED <<lf, lfArgs, lfSubmits, lfCalls, lfNav>>
    /\ UNCHANGED nonLoginVars

LoginInit ==
    /\ ClientInit
    /\ storage = NoToken
    /\ SessionInit
    /\ GuardIdle
    /\ FormIdle
    /\ ServerIdle
    /\ ErrorIdle
    /\ LoginIdle
    /\ CacheIdle

LoginNext ==
    \/ \E f \in LoginInputs, filled \in BOOLEAN : lfHandleChange(f, filled)
    \/ lfHandleSubmit
    \/ lfLoginResolved
    \/ lfLoginRejected

LoginSpec == LoginInit /\ [][LoginNext]_vars

\* --------------------------------------------------------- the response cache

MaxNow == 2        \* the clock's horizon, in units of the shortest duration
MaxSent == 2       \* responses the downstream handlers send
MaxHandlers == 2   \* downstream handlers running at the same time

\* The durations the middleware instances are configured with.
Durations == {1, 2}

\* The condition of line 16: the entry exists and is younger than duration.
cachedFreshInclusive(cachedResponse, duration) ==
    /\ cachedResponse # NoEntry
    /\ now - cachedResponse.timestamp <= duration

cachedFresh(cachedResponse, duration) ==
    /\ cachedResponse # NoEntry
    /\ now - cachedResponse.timestamp < duration

RECURSIVE RunningUpTo(_)
RunningUpTo(u) == IF u = 0 THEN 0 ELSE handlers[u] + RunningUpTo(u - 1)

\* The middleware returned by cache(duration) runs for a request of URL u:
\* lines 11-31.
cache(u, duration) ==
    /\ IF cachedFresh(memoryCache[u], duration)
       THEN /\ served' = [url |-> u, duration |-> duration, at |-> now,
                          hit |-> TRUE, data |-> memoryCache[u].data]
            /\ UNCHANGED handlers
       ELSE /\ RunningUpTo(NUrls) < MaxHandlers
            /\ served' = [url |-> u, duration |-> duration, at |-> now,
                          hit |-> FALSE, data |-> 0]
            /\ handlers' = [handlers EXCEPT ![u] = @ + 1]
    /\ UNCHANGED <<memoryCache, now, sent, latest>>
    /\ UNCHANGED nonCacheVars

\* The downstream handler of a miss for URL u calls the overridden res.json:
\* lines 22-28.
resJson(u) ==
    /\ handlers[u] > 0
    /\ sent < MaxSent
    /\ sent' = sent + 1
    /\ memoryCache' = [memoryCache EXCEPT
                          ![u] = [data |-> sent + 1, timestamp |-> now]]
    /\ latest' = [latest EXCEPT ![u] = sent + 1]
    /\ handlers' = [handlers EXCEPT ![u] = @ - 1]
    /\ UNCHANGED <<now, served>>
    /\ UNCHANGED nonCacheVars

\* clearCache(pattern): the keys that include the pattern are deleted; no
\* pattern clears the Map.  matching is the set of keys that include it.
NoPattern == Urls

clearCache(matching) ==
    /\ memoryCache' = [u \in Urls |->
                          IF u \in matching THEN NoEntry ELSE memoryCache[u]]
    /\ UNCHANGED <<now, handlers, sent, latest, served>>
    /\ UNCHANGED nonCacheVars

\* Time passes.
cacheTick ==
    /\ now < MaxNow
    /\ now' = now + 1
    /\ UNCHANGED <<memoryCache, handlers, sent, latest, served>>
    /\ UNCHANGED nonCacheVars

CacheInit ==
    /\ ClientInit
    /\ storage = NoToken
    /\ SessionInit
    /\ GuardIdle
    /\ FormIdle
    /\ ServerIdle
    /\ ErrorIdle
    /\ LoginIdle
    /\ CacheIdle

CacheNext ==
    \/ \E u \in Urls, duration \in Durations : cache(u, duration)
    \/ \E u \in Urls : resJson(u)
    \/ \E matching \in (SUBSET Urls) \cup {NoPattern} : clearCache(matching)
    \/ cacheTick

CacheSpec == CacheInit /\ [][CacheNext]_vars

\* ----------------------------------------------------------------- claims

Settled == {"resolved", "rejected"}

\* The step in which the promise of call r settles.
Settles(r) == req[r].state \notin Settled /\ req'[r].state \in Settled

\* The step in which the refresh call of cycle c fails.
RefreshFails(c) == cycles[c].outcome = "pending" /\ cycles'[c].outcome = "fail"

\* Two calls whose first attempts were on the wire at the same time.
Concurrent(r1, r2) == r1 \in req[r2].conc \/ r2 \in req[r1].conc

\* C1: at most one refresh call is in flight at any time; a call that the
\* coordinator takes (401, not yet retried) while a refresh is in flight is
\* put on the wait queue and no refresh call is started for it.
C1_SingleRefreshInFlight ==
    [][/\ Cardinality(PendingCycles') <= 1
       /\ \A r \in Requests :
             (PendingCycles # {} /\ req'[r].handled > req[r].handled)
                => /\ req'[r].state = "queued"
                   /\ r \in Subscribed'
                   /\ Len(cycles') = Len(cycles)]_vars

C1_Witness ==
    /\ PendingCycles # {}
    /\ \E r \in Subscribed : req[r].state = "queued"

\* C2: calls whose first attempts were on the wire together with the same
\* expired credential and that were all answered 401 share one refresh call,
\* in whatever order their 401s and the refresh response are delivered.
C2_ExactlyOneRefresh ==
    \A r1, r2 \in Requests :
        (/\ r1 # r2
         /\ Concurrent(r1, r2)
         /\ req[r1].hdr0 # NoToken
         /\ req[r1].hdr0 = req[r2].hdr0
         /\ req[r1].handled > 0
         /\ req[r2].handled > 0)
            => req[r1].cycle = req[r2].cycle

\* C3: once the refresh call of its cycle has resolved or failed, a call that
\* was queued behind it is no longer waiting: it was replayed or rejected.
C3_QueuedSettles ==
    \A r \in Requests :
        req[r].state = "queued" => req[r].cycle \in PendingCycles

\* C4: the coordinator takes a call at most once and a call is sent at most
\* twice; the answer to a call already retried starts no refresh call and
\* queues no callback, and when it is a failure the original error is
\* rejected to the caller.
C4_SingleRetry ==
    [][\A r \in Requests :
          /\ req'[r].handled <= 1
          /\ req'[r].sends <= 2
          /\ (req[r].retry /\ req[r].state = "inflight" /\ req'[r] # req[r])
                => /\ req'[r].state \in Settled
                   /\ req'[r].state = "rejected"
                         => req'[r].err \in {"401", "other"}
                   /\ Len(cycles') = Len(cycles)
                   /\ refreshSubscribers' = refreshSubscribers]_vars

C4_Witness ==
    \E r \in Requests :
        /\ req[r].retry
        /\ req[r].sends = 2
        /\ req[r].state = "rejected"
        /\ req[r].err = "401"

\* C5: when the forced-sign-out signal is emitted, the session context
\* clears its identity and the stored credential and is unauthenticated.
C5_ForcedSignOut ==
    [][signals' > signals => (user' = NoUser /\ storage' = NoToken)]_vars

\* C6: when logout() finishes, whether its network call succeeded or failed,
\* the identity is null and the stored credential is removed.
C6_LogoutBestEffort ==
    [][\A r \in Requests :
          (req[r].kind = "logout" /\ Settles(r))
             => (user' = NoUser /\ storage' = NoToken)]_vars

\* C7: a 401 on a call that was already retried is not retried again, is
\* rejected to the caller, and forces sign-out: the signal is emitted and
\* the stored credential is cleared.
C7_Second401SignsOut ==
    [][\A r \in Requests :
          (req[r].retry /\ req[r].state = "inflight" /\ req'[r].err = "401")
             => /\ req'[r].state = "rejected"
                /\ req'[r].sends = req[r].sends
                /\ signals' = signals + 1
                /\ storage' = NoToken]_vars

\* C8: a call is replayed only after the refresh call of its cycle has been
\* answered, and only when that answer was a success.
C8_ReplayAfterRefresh ==
    \A r \in Requests :
        req[r].sends >= 2
           => /\ req[r].cycle \in 1..Len(cycles)
              /\ cycles[req[r].cycle].outcome = "ok"

C8_Witness ==
    \E r1, r2 \in Requests :
        /\ r1 # r2
        /\ req[r1].cycle >= 1
        /\ req[r1].cycle = req[r2].cycle
        /\ cycles[req[r1].cycle].starter = r1
        /\ req[r1].sends = 2
        /\ req[r2].sends = 2

\* C9: every replay of a cycle carries the access credential that the
\* cycle's refresh call returned.
C9_SameRenewedCredential ==
    \A r \in Requests :
        req[r].sends >= 2
           => /\ req[r].cycle \in 1..Len(cycles)
              /\ cycles[req[r].cycle].token # NoToken
              /\ req[r].header = cycles[req[r].cycle].token

C9_Witness ==
    \E r1, r2 \in Requests :
        /\ r1 # r2
        /\ req[r1].cycle >= 1
        /\ req[r1].cycle = req[r2].cycle
        /\ req[r1].sends = 2
        /\ req[r2].sends = 2
        /\ req[r1].header = req[r2].header
        /\ req[r1].header # req[r1].hdr0
        /\ storage # req[r1].header

\* C10: a failed refresh call leaves no stored credential, the flag false
\* and the queue empty, emits the signal once, and rejects the call that
\* started it with the refresh error; the signal is emitted by nothing else.
C10_RefreshFailure ==
    [][/\ \A c \in 1..Len(cycles) :
             RefreshFails(c)
                => /\ storage' = NoToken
                   /\ ~isRefreshing'
                   /\ refreshSubscribers' = <<>>
                   /\ signals' = signals + 1
                   /\ req'[cycles[c].starter].state = "rejected"
                   /\ req'[cycles[c].starter].err = "refresh"
       /\ signals' # signals => \E c \in 1..Len(cycles) : RefreshFails(c)]_vars

C10_Witness ==
    \E c \in 1..Len(cycles) :
        /\ cycles[c].outcome = "fail"
        /\ req[cycles[c].starter].err = "refresh"
        /\ req[cycles[c].starter].hdr0 # NoToken
        /\ signals = 1

\* C11: a successful login or signup leaves the context authenticated with
\* the identity of the response, and the stored credential is the access
\* token of that same response, so the next call sent carries it.
C11_LoginStoresSession ==
    [][\A r \in Requests :
          (/\ req[r].kind \in {"login", "signup"}
           /\ req[r].state # "resolved"
           /\ req'[r].state = "resolved")
             => /\ user' = req'[r].ruser
                /\ user' # NoUser
                /\ storage' = req'[r].rtok
                /\ storage' # NoToken
                /\ RequestInterceptor(NoToken, storage') = req'[r].rtok]_vars

C11_Witness ==
    \E r \in Requests :
        /\ req[r].kind \in {"login", "signup"}
        /\ req[r].state = "resolved"
        /\ user = req[r].ruser
        /\ storage = req[r].rtok
        /\ req[r].rtok # req[r].hdr0

\* C12: a login that ends rejected has stored no access credential on the
\* way: no refresh call started for it has put a credential in storage.
C12_FailedLoginStoresNothing ==
    \A r \in Requests :
        (req[r].kind = "login" /\ req[r].state = "rejected")
           => \A c \in 1..Len(cycles) :
                 cycles[c].starter = r => cycles[c].outcome # "ok"

\* C13: a login answered 401 does not engage the coordinator: it starts no
\* refresh call, waits for none, and is not sent a second time.
C13_LoginNotRetried ==
    \A r \in Requests :
        req[r].kind = "login" => (req[r].handled = 0 /\ req[r].sends <= 1)

\* C14: a refresh call that fails without an HTTP response clears no stored
\* credential and emits no forced-sign-out signal.
C14_NetworkFailureIsNotAuthFailure ==
    [][\A c \in 1..Len(cycles) :
          (RefreshFails(c) /\ cycles'[c].status = NoResponse)
             => (storage' = storage /\ signals' = signals)]_vars

\* C15: the context starts with no identity and loading; once every network
\* call made so far has been answered, loading has become false.
C15_LoadingResolves ==
    /\ ~Mounted => (user = NoUser /\ isLoading)
    /\ (/\ Mounted
        /\ PendingCycles = {}
        /\ \A r \in Requests : req[r].state # "inflight")
          => ~isLoading

\* C16: a render of the guard made while the context is loading returns the
\* placeholder and issues no redirect, whatever requireAuth is.
C16_NoRedirectWhileLoading ==
    [][(GuardStep /\ seenLoading')
          => (lastTarget' = NoRedirect /\ rendered' = "placeholder")]_vars

C16_Witness ==
    /\ gMounted
    /\ seenLoading
    /\ seenAuth # requireAuth
    /\ rendered = "placeholder"

\* C17: with loading resolved, a redirect goes to redirectTo when requireAuth
\* and unauthenticated, to /dashboard when not requireAuth and authenticated;
\* a render that sees one of these cases for the first time redirects; in the
\* two other cases there is no redirect and the children are rendered.
C17_RedirectCases ==
    [][(GuardStep /\ ~seenLoading')
          => /\ lastTarget' # NoRedirect
                   => \/ requireAuth /\ ~seenAuth' /\ lastTarget' = redirectTo'
                      \/ ~requireAuth /\ seenAuth' /\ lastTarget' = Landing
             /\ (/\ NeedsRedirect(seenLoading', seenAuth', requireAuth)
                 /\ <<seenAuth', seenLoading'>> # <<seenAuth, seenLoading>>)
                   => lastTarget' # NoRedirect
             /\ ~NeedsRedirect(seenLoading', seenAuth', requireAuth)
                   => (lastTarget' = NoRedirect /\ rendered' = "children")]_vars

C17_Witness ==
    /\ ~seenLoading
    /\ ~requireAuth
    /\ seenAuth
    /\ lastTarget = Landing
    /\ redirectTo # "/login"

\* C18: between two transitions of (loading, authenticated) the guard issues
\* at most one redirect, however often its redirect effect runs again.
C18_OneRedirectPerTransition ==
    redirectsSince <= 1

\* C19: a submission calls signup() only when username, email, password,
\* full name and avatar are all present; otherwise no call is made and each
\* missing one of the five gets an error; the cover image plays no part.
RequiredFields == {"username", "email", "password", "fullName", "avatar"}

C19_SignupValidation ==
    [][/\ sfCalls' # sfCalls => sfSubmits' = sfSubmits + 1
       /\ sfSubmits' = sfSubmits + 1
             => IF \A f \in RequiredFields : sf[f]
                THEN sfCalls' = sfCalls + 1
                ELSE /\ sfCalls' = sfCalls
                     /\ ~sfPending'
                     /\ sfErrors' = {f \in RequiredFields : ~sf[f]}]_vars

C19_Witness ==
    /\ sfSubmits = 2
    /\ sfCalls = 1
    /\ sfPending
    /\ sfErrors = {}
    /\ ~sf.coverImage

\* The refresh credential issued last for an identity, if any.
IssuedFor(id) == {t \in Minted : rMinted[t] = id}
Latest(id) ==
    IF IssuedFor(id) = {} THEN NoRT
    ELSE CHOOSE t \in IssuedFor(id) : \A o \in IssuedFor(id) : o <= t

\* C20: a refresh attempt with a refresh credential issued before the latest
\* one of its identity fails as revoked; the one issued last is accepted as
\* long as the identity has not logged out.
C20_SingleActiveRefresh ==
    [][(lastVerify' # lastVerify /\ lastVerify'.tok \in Minted)
          => LET t == lastVerify'.tok
                 id == rMinted[t]
             IN /\ t # Latest(id) => lastVerify'.result = "revoked"
                /\ (t = Latest(id) /\ record[id] # NoRT)
                      => lastVerify'.result = "ok"]_vars

C20_Witness ==
    /\ lastVerify.result = "revoked"
    /\ lastVerify.tok \in Minted
    /\ lastVerify.tok # Latest(rMinted[lastVerify.tok])
    /\ record[rMinted[lastVerify.tok]] = Latest(rMinted[lastVerify.tok])

\* The identities whose last issuer operation is a logout.
LoggedOut == {id \in Identities : lastOp[id] \in {"revoke", "revoke again"}}

\* C21: after a logout the Session Record of the identity is empty, and until
\* a new login every refresh attempt with a refresh credential issued to that
\* identity fails as revoked or invalid.
C21_LogoutRevokes ==
    [][/\ \A id \in LoggedOut' : record'[id] = NoRT
       /\ (lastVerify' # lastVerify /\ lastVerify'.tok \in Minted
             /\ rMinted[lastVerify'.tok] \in LoggedOut)
            => lastVerify'.result \in {"revoked", "invalid"}]_vars

C21_Witness ==
    /\ lastVerify.result = "revoked"
    /\ lastVerify.tok \in Minted
    /\ rMinted[lastVerify.tok] \in LoggedOut
    /\ lastVerify.tok = Latest(rMinted[lastVerify.tok])

\* The handlers of an identity that have updated the Session Record and not
\* yet answered.
PendingFor(id) == {p \in pending : p.id = id}

\* Whatever the interleaving, the stored value is empty or the refresh
\* credential of the last login, and once every handler of the identity has
\* answered that credential is the one its login caller received.
StoredIsEmptyOrReturned ==
    \A id \in Identities :
        /\ record[id] \in {NoRT, Latest(id)}
        /\ (PendingFor(id) = {} /\ record[id] # NoRT) => record[id] \in returned

\* A login answers.
LoginDelivered(p) == p \in pending /\ p \notin pending' /\ p.kind = "login"

C23_AccessRoundTrip ==
    (lastAccess.status # "none" /\ lastAccess.tok \in Minted)
       => LET a == lastAccess.tok
          IN /\ clock - aMinted[a].iat < AccessTTL
                  => (lastAccess.status = "ok" /\ lastAccess.id = rMinted[a])
             /\ clock - aMinted[a].iat >= AccessTTL
                  => lastAccess.status = "expired"

\* An access credential is refused as expired while a younger one of the same
\* run is still within its lifetime.
C23_Witness ==
    /\ lastAccess.status = "expired"
    /\ lastAccess.tok \in Minted
    /\ \E b \in Minted : verifyAccess(b).status = "ok"

\* C24: revoke leaves the identity's Session Record empty and every other
\* identity's record as it was; applied again in a row it changes nothing.
C24_RevokeIdempotent ==
    [][\A id \in Identities :
          revoke(id)
             => /\ record'[id] = NoRT
                /\ \A o \in Identities \ {id} : record'[o] = record[o]
                /\ id \in LoggedOut => record' = record]_vars

C24_Witness ==
    \E id \in Identities :
        /\ lastOp[id] = "revoke again"
        /\ record[id] = NoRT
        /\ IssuedFor(id) # {}
        /\ \E o \in Identities \ {id} : record[o] # NoRT

\* The error kinds the claim names.
IsInvalidToken(e) == e.name = "JsonWebTokenError"
IsExpiredToken(e) == e.name = "TokenExpiredError"
IsDuplicateKey(e) == e.code = DuplicateKey
IsValidation(e) == e.name = "ValidationError"
IsNamedKind(e) ==
    IsInvalidToken(e) \/ IsExpiredToken(e) \/ IsDuplicateKey(e) \/ IsValidation(e)

\* The mapping of the named kinds, and of every error outside them to 500.
KindMapping(e, r) ==
    /\ IsInvalidToken(e) => (r.status = 401 /\ r.body.message = <<"Invalid token">>)
    /\ IsExpiredToken(e) => (r.status = 401 /\ r.body.message = <<"Token expired">>)
    /\ IsDuplicateKey(e) => r.status = 409
    /\ IsValidation(e)
          => /\ r.status = 400
             /\ Len(r.body.errors) = Len(e.fields)
             /\ \A i \in 1..Len(e.fields) : r.body.errors[i] = FieldMessage(e.fields[i])
    /\ ~IsNamedKind(e) => r.status = 500
    /\ r.body.success = FALSE
    /\ r.body.statusCode = r.status

\* C25 as stated: invalid and expired tokens yield 401 with distinct
\* messages, a duplicate key 409, a validation error 400 with the per-field
\* messages, anything else 500; success is false and the body's statusCode is
\* the status sent.
C25_ErrorEnvelope ==
    res # NoRes => KindMapping(err, res)

\* C25 amended: the mapping holds for every error that is not an ApiError; an
\* ApiError is answered with its own statusCode and success flag, and the
\* body's statusCode is the status sent in every response.
C25_ErrorEnvelopeOfForeignErrors ==
    res # NoRes
       => /\ ~err.api => KindMapping(err, res)
          /\ err.api => (res.status = err.statusCode
                           /\ res.body.success = err.success)
          /\ res.body.statusCode = res.status

C25_Witness ==
    /\ res # NoRes
    /\ IsDuplicateKey(err)
    /\ res.status = 409
    /\ res.body.errors = <<<<"email", "must be unique">>>>

\* Request r is put on the wire in this step.
Sent(r) == req'[r].sends = req[r].sends + 1

\* Cycle c receives its new access credential in this step.
RefreshSucceeds(c) == cycles[c].outcome = "pending" /\ cycles'[c].outcome = "ok"

\* C26: a request, first attempt or replay, is sent with the access credential
\* that is in storage at that moment as its header, with no header when none
\* is stored; the requests sent when a refresh succeeds carry the renewed
\* credential, and so does every later one sent while it is the stored one.
C26_HeaderIsStoredCredential ==
    [][\A r \in Requests :
          Sent(r)
             => /\ req'[r].header = storage'
                /\ \A c \in 1..Len(cycles) :
                      RefreshSucceeds(c) => req'[r].header = cycles'[c].token
                /\ (Len(cycles) > 0 /\ cycles' = cycles
                      /\ storage = cycles[Len(cycles)].token)
                      => req'[r].header = cycles[Len(cycles)].token]_vars

\* A call was replayed with the renewed credential and a later call was sent
\* with it too.
C26_Witness ==
    \E r1, r2 \in Requests :
        /\ req[r1].sends = 2
        /\ req[r1].cycle >= 1
        /\ req[r2].sends = 1
        /\ req[r2].hdr0 # NoToken
        /\ req[r2].hdr0 = cycles[req[r1].cycle].token
        /\ req[r1].hdr0 # req[r2].hdr0

\* C27: the refresh call carries the cookies and no access header, whatever
\* is in storage when it is sent.
C27_RefreshWithoutAccessHeader ==
    \A c \in 1..Len(cycles) :
        cycles[c].call.header = NoToken /\ cycles[c].call.withCredentials

\* A refresh call is in flight while a credential is stored.
C27_Witness ==
    /\ Len(cycles) >= 1
    /\ cycles[Len(cycles)].outcome = "pending"
    /\ storage # NoToken
    /\ req[cycles[Len(cycles)].starter].header = storage

\* A failure of r that is not a 401 is handled in this step.
NonAuthFailure(r) ==
    /\ req[r].state = "inflight"
    /\ \/ req'[r].state = "rejected" /\ req'[r].err = "other"
       \/ req'[r].handled > req[r].handled /\ req'[r].via # 401

\* C29: a failure that is not a 401 is rejected to the caller with the
\* original error; the flag, the queue, the stored credential and the
\* request's retried mark stay as they were and no refresh call is made.
C29_OtherErrorsBypass ==
    [][\A r \in Requests :
          NonAuthFailure(r)
             => /\ req'[r].state = "rejected"
                /\ req'[r].err = "other"
                /\ req'[r].retry = req[r].retry
                /\ isRefreshing' = isRefreshing
                /\ refreshSubscribers' = refreshSubscribers
                /\ storage' = storage
                /\ cycles' = cycles]_vars

\* A call failed otherwise while a refresh was in flight and a credential
\* was stored.
C29_Witness ==
    \E r \in Requests :
        /\ req[r].state = "rejected"
        /\ req[r].err = "other"
        /\ ~req[r].retry
        /\ isRefreshing
        /\ storage # NoToken

\* C30: between any two interceptor runs the wait queue is empty whenever the
\* in-flight flag is false.
C30_QueueOnlyWhileRefreshing ==
    ~isRefreshing => refreshSubscribers = <<>>

\* A refresh with a queued call has failed: flag and queue are both cleared.
C30_Witness ==
    \E r \in Requests :
        /\ req[r].state = "queued"
        /\ cycles[req[r].cycle].outcome = "fail"
        /\ ~isRefreshing
        /\ refreshSubscribers = <<>>

\* Call r is put in the wait queue in this step.
Enqueues(r) == req[r].state = "inflight" /\ req'[r].state = "queued"

\* No call is in the queue twice.
QueuedOnce ==
    \A i, j \in 1..Len(refreshSubscribers) :
        refreshSubscribers[i] = refreshSubscribers[j] => i = j

\* C28: calls join the wait queue at its end; when the refresh succeeds the
\* new credential is in storage before the replays go out, every queued call
\* is replayed exactly once, in the order of the queue, then the call that
\* started the refresh; the queue is left empty and the flag false, no other
\* call is sent and none stays queued for this cycle.
C28_QueueDrainedInOrder ==
    [][/\ \A r \in Calls :
             Enqueues(r) => refreshSubscribers' = Append(refreshSubscribers, r)
       /\ \A c \in 1..Len(cycles) :
             RefreshSucceeds(c)
                => LET tok == cycles'[c].token
                       replayed == Subscribed \cup {cycles[c].starter}
                   IN /\ cycles'[c].replays
                            = refreshSubscribers \o <<cycles[c].starter>>
                      /\ QueuedOnce
                      /\ cycles[c].starter \notin Subscribed
                      /\ storage' = tok
                      /\ \A r \in replayed :
                            /\ req[r].sends = 1
                            /\ req'[r].sends = 2
                            /\ req'[r].state = "inflight"
                            /\ req'[r].header = tok
                      /\ \A r \in Calls \ replayed : req'[r] = req[r]
                      /\ refreshSubscribers' = <<>>
                      /\ ~isRefreshing'
                      /\ \A r \in Calls :
                            req'[r].state = "queued" => req'[r].cycle # c]_vars

\* Two calls were queued in the reverse of the order in which they were made
\* and have been replayed in the order of the queue, before the starter.
C28_Witness ==
    \E c \in 1..Len(cycles) :
        /\ cycles[c].outcome = "ok"
        /\ Len(cycles[c].replays) = 3
        /\ cycles[c].replays[1] > cycles[c].replays[2]
        /\ \A i \in 1..3 :
              /\ req[cycles[c].replays[i]].sends = 2
              /\ req[cycles[c].replays[i]].header = cycles[c].token
        /\ refreshSubscribers = <<>>
        /\ ~isRefreshing

\* The calls of the given kinds that have been made and not settled.
InProgress(kinds) ==
    {r \in Calls : req[r].kind \in kinds
                     /\ req[r].state \in {"inflight", "queued", "refreshing"}}

\* C31: whenever the context is authenticated and no login, signup, logout or
\* refresh call is in progress, an access credential is in storage.
C31_AuthenticatedHoldsCredential ==
    (/\ isAuthenticated
     /\ InProgress({"login", "signup", "logout"}) = {}
     /\ PendingCycles = {}
     /\ ~isRefreshing)
        => storage # NoToken

\* A logout has resolved.
LoggedOutOnce == \E r \in Calls : req[r].kind = "logout" /\ req[r].state = "resolved"

\* C32: in a run without login or signup, once a logout has completed
\* successfully no access credential is stored, whatever responses of calls
\* and refresh calls already in flight arrive afterwards.
C32_NoCredentialAfterLogout ==
    LoggedOutOnce => storage = NoToken

\* The startup probe settles in this step.
ProbeSettles == req[1].kind = "me" /\ Settles(1)
SignedIn == \E r \in Calls : req[r].kind \in {"login", "signup"}
                              /\ req[r].state = "resolved"

\* C33: a probe failure delivered after a login or signup succeeded does not
\* reset the identity, and a probe success delivered after a logout (with no
\* login or signup since) does not authenticate the context.
C33_ProbeDoesNotOverride ==
    [][ProbeSettles
          => /\ (SignedIn /\ isAuthenticated /\ req'[1].state = "rejected")
                   => user' = user
             /\ (LoggedOutOnce /\ ~SignedIn /\ ~isAuthenticated
                   /\ req'[1].state = "resolved")
                   => user' = NoUser]_vars

\* The guard has rendered the current session state.
RenderedCurrent ==
    gMounted /\ seenAuth = isAuthenticated /\ seenLoading = isLoading

\* C35: the guard renders its children exactly when loading is false and the
\* authentication state is the required one; while loading it renders the
\* placeholder and otherwise nothing.
C35_ChildrenOnlyWhenAllowed ==
    RenderedCurrent
       => /\ rendered = "children"
                <=> (~isLoading /\ (requireAuth <=> isAuthenticated))
          /\ isLoading => rendered = "placeholder"
          /\ rendered \in {"children", "placeholder", "null"}

\* A page for anonymous visitors rendered for a signed-in user: nothing.
C35_Witness ==
    /\ RenderedCurrent
    /\ ~requireAuth
    /\ isAuthenticated
    /\ ~isLoading
    /\ rendered = "null"

\* C34: a refresh call that fails starts no other refresh call and no
\* replay: the cycle ends, the flag is cleared, nothing is sent, and a failed
\* cycle is never sent again.
C34_RefreshNotRetried ==
    [][\A c \in 1..Len(cycles) :
          /\ RefreshFails(c)
                => /\ Len(cycles') = Len(cycles)
                   /\ PendingCycles' = {}
                   /\ ~isRefreshing'
                   /\ \A r \in Calls : ~Sent(r)
                   /\ req'[cycles[c].starter].state = "rejected"
          /\ cycles[c].outcome = "fail" => cycles'[c] = cycles[c]]_vars

\* A refresh call was answered 401 and its starter rejected; the call made
\* afterwards started the only other refresh call.
C34_Witness ==
    /\ Len(cycles) >= 1
    /\ cycles[1].outcome = "fail"
    /\ cycles[1].status = 401
    /\ req[cycles[1].starter].err = "refresh"
    /\ \A c \in 1..Len(cycles) : c # 1 => cycles[c].starter # cycles[1].starter
    /\ ~isRefreshing

\* C36: the loading flag is true until the startup probe settles, becomes
\* false when it does, and no operation sets it back to true.
C36_LoadingMonotone ==
    [][/\ ~Mounted => isLoading
       /\ ~isLoading => ~isLoading'
       /\ ProbeSettles => ~isLoading'
       /\ (isLoading /\ ~isLoading') => ProbeSettles]_vars

\* The probe has settled, and afterwards a login, a refresh and a forced
\* sign-out signal have happened.
C36_Witness ==
    /\ ~isLoading
    /\ req[1].state \in Settled
    /\ \E r \in Calls : req[r].kind = "login" /\ req[r].err = "refresh"
    /\ signals >= 1

\* C37: the login form calls login() only for a submission with a password
\* and a username or an email, and makes no call otherwise; the form is
\* loading while the call is awaited and not loading once it has settled;
\* it navigates only when a login() call fulfils, and a rejected call sets
\* the general message without navigating.
LoginValid == lf.password /\ (lf.username \/ lf.email)

C37_LoginSubmission ==
    [][/\ lfCalls' # lfCalls
             => /\ lfSubmits' = lfSubmits + 1
                /\ LoginValid
                /\ lfArgs' = lf
       /\ lfSubmits' = lfSubmits + 1
             => IF LoginValid
                THEN lfCalls' = lfCalls + 1 /\ lfPending' /\ lfLoading'
                ELSE lfCalls' = lfCalls /\ ~lfPending' /\ lfNav' = lfNav
       /\ lfPending => lfLoading
       /\ (lfPending /\ ~lfPending')
             => /\ ~lfLoading'
                /\ lfOutcome' \in {"ok", "fail"}
                /\ lfOutcome' = "ok" => lfNav' = lfNav + 1
                /\ lfOutcome' = "fail"
                      => lfNav' = lfNav /\ "general" \in lfErrors'
       /\ lfNav' # lfNav => (lfPending /\ lfOutcome' = "ok")]_vars

\* A first submission without a password made no call; the second one was
\* valid, its login() was rejected and the form shows the general message.
C37_Witness ==
    /\ lfSubmits = 2
    /\ lfCalls = 1
    /\ lfOutcome = "fail"
    /\ "general" \in lfErrors
    /\ lfNav = 0
    /\ ~lfLoading

\* C38: the cache answers a request from the Map only when the Map holds an
\* entry of that URL younger than the duration, and the answer is then the
\* last response a downstream handler sent for that URL; otherwise the
\* downstream handler runs, and the response it sends becomes the entry of
\* that URL with the current time.
CacheRuns(u) ==
    /\ served'.url = u
    /\ \/ served' # served
       \/ handlers'[u] > handlers[u]

C38_CacheServesFresh ==
    [][\A u \in Urls :
          /\ CacheRuns(u)
                => IF served'.hit
                   THEN /\ memoryCache[u] # NoEntry
                        /\ now - memoryCache[u].timestamp < served'.duration
                        /\ served'.data = memoryCache[u].data
                        /\ served'.data = latest[u]
                        /\ handlers' = handlers
                        /\ memoryCache' = memoryCache
                   ELSE /\ \/ memoryCache[u] = NoEntry
                           \/ now - memoryCache[u].timestamp >= served'.duration
                        /\ handlers'[u] = handlers[u] + 1
                        /\ memoryCache' = memoryCache
          /\ handlers'[u] < handlers[u]
                => /\ latest'[u] = sent'
                   /\ sent' = sent + 1
                   /\ memoryCache'[u] = [data |-> sent', timestamp |-> now']
                   /\ \A v \in Urls \ {u} : memoryCache'[v] = memoryCache[v]]_vars

\* A request was answered from an entry that is one unit old under the
\* longer duration, after the entry of its URL had been replaced once.
C38_Witness ==
    /\ served.hit
    /\ served.duration = 2
    /\ memoryCache[served.url] # NoEntry
    /\ served.at - memoryCache[served.url].timestamp = 1
    /\ served.data = 2
    /\ latest[served.url] = 2

====
